---- MODULE Spec2Model ----
(***************************************************************************)
(* Daxer Studio: the application state store (reducer), the metadata       *)
(* store (localStorage document), the blob store (IndexedDB), the          *)
(* hydration effect that reconciles both at startup, and the generation    *)
(* panel that writes results to the blob store and then to the state.      *)
(*                                                                         *)
(* JavaScript objects are records; an optional property that is not set   *)
(* is a field missing from the record's DOMAIN.  Arrays are sequences     *)
(* (index 1 is JavaScript's index 0).  uuid() is a fresh number.           *)
(***************************************************************************)
EXTENDS Integers, Sequences, FiniteSets, TLC

VARIABLES
    state,      \* AppState held by useReducer (store.tsx)
    stored,     \* localStorage item 'daxer-studio-state'
    blobs,      \* committed content of the IndexedDB object store 'images'
    hyd,        \* the hydrate() call started by the mount effect
    pendingDel, \* deleteMultipleImageBlobs transactions not yet finished
    epoch,      \* number of page loads so far (one process per load)
    nextId,     \* next value uuid() returns
    panel,      \* GenerationPanel component state and abortControllers ref
    batches,    \* startGeneration calls in progress, by batchId
    attempts,   \* per-request async closures of startGeneration, by request id
    uploads,    \* handleImageUpload / handleCharacterUpload / handleDrop calls
    acked,      \* ids whose saveImageBlob / saveMultipleImageBlobs promise has resolved
    lastWrite,  \* history of the step just taken: "failed" when it ran saveState and setItem
                \* threw, else "passed"; kept only by behaviours that start with it recorded
    dispatched  \* history of the actions handed to dispatch, in order; kept only by
                \* behaviours that start with it on

vars ==
    <<state, stored, blobs, hyd, pendingDel, epoch, nextId, panel, batches, attempts, uploads, acked,
      lastWrite, dispatched>>

\* what the generation panel and the upload handlers own
ioVars == <<panel, batches, attempts, uploads, acked>>

----------------------------------------------------------------------------
(* Bounds *)

MaxReloads == 1
MaxCreate == 1
MaxBatches == 2

MaxAttempts == 2
MaxUploads == 1
MaxFiles == 2
MaxVariations == 2
MaxReplay == 3
MaxRenames == 3

----------------------------------------------------------------------------
(* JavaScript values *)

NULL == 0
EMPTY == ""
Undefined == "undefined"

Truthy(x) == x # EMPTY /\ x # Undefined

\* a || b
Or(a, b) == IF Truthy(a) THEN a ELSE b

\* { ...r, ...patch }
Spread(r, patch) ==
    [f \in (DOMAIN r) \cup (DOMAIN patch) |-> IF f \in DOMAIN patch THEN patch[f] ELSE r[f]]

\* array.map(f) for a sequence
MapSeq(s, F(_)) == [i \in 1..Len(s) |-> F(s[i])]

\* array.filter(x => x.id !== id)
WithoutId(s, id) == LET Keep(x) == x.id # id IN SelectSeq(s, Keep)

\* Map.get(key)
MapGet(m, k) == IF k \in DOMAIN m THEN m[k] ELSE Undefined

EmptyMap == [k \in {} |-> EMPTY]

Range(s) == {s[i] : i \in DOMAIN s}

IdsOfSeq(xs) == {xs[i].id : i \in DOMAIN xs}

RECURSIVE Flatten(_)
Flatten(ss) == IF ss = <<>> THEN <<>> ELSE Head(ss) \o Flatten(Tail(ss))

----------------------------------------------------------------------------
(* store.tsx: defaults *)

DEFAULT_SETTINGS == [numberOfVariations |-> 3, stylePreset |-> "none"]

DEFAULT_MODEL == "gemini-2.5-flash-image"

----------------------------------------------------------------------------
(* store.tsx: localStorage document *)

\* The object saveState serialises: every dataUrl replaced by ''.
StripDataUrl(x) == Spread(x, [dataUrl |-> EMPTY])

\* variant: the characters collection is written as it is in memory
StripProject_CharactersKept(p) ==
    Spread(p, [referenceImages |-> MapSeq(p.referenceImages, StripDataUrl)])

StripProject(p) ==
    Spread(p, [referenceImages |-> MapSeq(p.referenceImages, StripDataUrl),
               characters |-> MapSeq(p.characters, StripDataUrl)])

saveState(s) ==
    [apiKey |-> s.apiKey,
     modelId |-> s.modelId,
     projects |-> MapSeq(s.projects, StripProject),
     activeProjectId |-> s.activeProjectId,
     generatedImages |-> MapSeq(s.generatedImages, StripDataUrl),
     defaultSettings |-> s.defaultSettings]

\* variant: a write that throws leaves the item cleared
setItem_LosesItem(old, doc, ok) == IF ok THEN [kind |-> "json", doc |-> doc] ELSE [kind |-> "absent"]

\* localStorage.setItem(key, JSON.stringify(toSave)); ok = FALSE when it throws
setItem(old, doc, ok) == IF ok THEN [kind |-> "json", doc |-> doc] ELSE old

MigrateProject(p) ==
    Spread(p, [characters |-> IF "characters" \in DOMAIN p THEN p.characters ELSE <<>>])

\* raw.kind: "absent" (getItem returns null), "empty" (the empty string),
\* "unparseable" (JSON.parse throws), "null" (reading parsed.projects throws),
\* "primitive" (a number, string, boolean or array: returned as it is, and it
\* has none of the fields), "json" (an object, with the fields of raw.doc)
loadState(raw) ==
    IF raw.kind = "json"
    THEN IF "projects" \in DOMAIN raw.doc
         THEN Spread(raw.doc, [projects |-> MapSeq(raw.doc.projects, MigrateProject)])
         ELSE raw.doc
    ELSE <<>>

getInitialState(raw) ==
    LET saved == loadState(raw)
        Has(f) == f \in DOMAIN saved
    IN [apiKey |-> IF Has("apiKey") THEN Or(saved.apiKey, EMPTY) ELSE EMPTY,
        modelId |-> IF Has("modelId") THEN Or(saved.modelId, DEFAULT_MODEL) ELSE DEFAULT_MODEL,
        projects |-> IF Has("projects") THEN saved.projects ELSE <<>>,
        activeProjectId |-> IF Has("activeProjectId") THEN saved.activeProjectId ELSE NULL,
        generatedImages |-> IF Has("generatedImages") THEN saved.generatedImages ELSE <<>>,
        generationQueue |-> <<>>,
        defaultSettings |-> IF Has("defaultSettings") THEN saved.defaultSettings ELSE DEFAULT_SETTINGS,
        selectedImageId |-> NULL,
        view |-> "generate",
        hydrated |-> FALSE]

----------------------------------------------------------------------------
(* store.tsx: reducer *)

\* now is what Date.now() returns inside the reducer
Case_UPDATE_PROJECT(s, payload, now) ==
    LET Upd(p) == IF p.id = payload.id
                  THEN Spread(Spread(p, payload), [updatedAt |-> now])
                  ELSE p
    IN [s EXCEPT !.projects = MapSeq(s.projects, Upd)]

Case_CREATE_PROJECT(s, project) ==
    [s EXCEPT !.projects = Append(s.projects, project)]

\* variant: the generated images of the deleted project stay
Case_DELETE_PROJECT_NoCascade(s, id) ==
    LET newProjects == WithoutId(s.projects, id)
    IN [s EXCEPT !.projects = newProjects,
                 !.activeProjectId =
                     IF s.activeProjectId = id
                     THEN (IF newProjects = <<>> THEN NULL ELSE newProjects[1].id)
                     ELSE s.activeProjectId]

\* variant: the active project id is left as it was
Case_DELETE_PROJECT_KeepActive(s, id) ==
    LET OtherProject(img) == img.projectId # id
    IN [s EXCEPT !.projects = WithoutId(s.projects, id),
                 !.generatedImages = SelectSeq(s.generatedImages, OtherProject)]

Case_DELETE_PROJECT(s, id) ==
    LET newProjects == WithoutId(s.projects, id)
        OtherProject(img) == img.projectId # id
    IN [s EXCEPT !.projects = newProjects,
                 !.activeProjectId =
                     IF s.activeProjectId = id
                     THEN (IF newProjects = <<>> THEN NULL ELSE newProjects[1].id)
                     ELSE s.activeProjectId,
                 !.generatedImages = SelectSeq(s.generatedImages, OtherProject)]

Case_SET_ACTIVE_PROJECT(s, id) ==
    [s EXCEPT !.activeProjectId = id, !.selectedImageId = NULL]

Case_ADD_REFERENCE_IMAGE(s, payload) ==
    LET Upd(p) == IF p.id = payload.projectId
                  THEN Spread(p, [referenceImages |-> Append(p.referenceImages, payload.image)])
                  ELSE p
    IN [s EXCEPT !.projects = MapSeq(s.projects, Upd)]

\* variant: the image is taken out of every project that holds it
Case_REMOVE_REFERENCE_IMAGE_AnyProject(s, payload) ==
    LET Upd(p) == Spread(p, [referenceImages |-> WithoutId(p.referenceImages, payload.imageId)])
    IN [s EXCEPT !.projects = MapSeq(s.projects, Upd)]

Case_REMOVE_REFERENCE_IMAGE(s, payload) ==
    LET Upd(p) == IF p.id = payload.projectId
                  THEN Spread(p, [referenceImages |-> WithoutId(p.referenceImages, payload.imageId)])
                  ELSE p
    IN [s EXCEPT !.projects = MapSeq(s.projects, Upd)]

Case_ADD_REFERENCE_IMAGES_BATCH(s, payload) ==
    LET Upd(p) == IF p.id = payload.projectId
                  THEN Spread(p, [referenceImages |-> p.referenceImages \o payload.images])
                  ELSE p
    IN [s EXCEPT !.projects = MapSeq(s.projects, Upd)]

Case_ADD_CHARACTERS_BATCH(s, payload) ==
    LET Upd(p) == IF p.id = payload.projectId
                  THEN Spread(p, [characters |-> p.characters \o payload.characters])
                  ELSE p
    IN [s EXCEPT !.projects = MapSeq(s.projects, Upd)]

Case_ADD_GENERATION_REQUEST(s, req) ==
    [s EXCEPT !.generationQueue = Append(s.generationQueue, req)]

\* variant: an update for an id the queue does not hold adds an entry
Case_UPDATE_GENERATION_REQUEST_Upsert(s, payload) ==
    LET Upd(r) == IF r.id = payload.id THEN Spread(r, payload) ELSE r
    IN IF payload.id \in IdsOfSeq(s.generationQueue)
       THEN [s EXCEPT !.generationQueue = MapSeq(s.generationQueue, Upd)]
       ELSE [s EXCEPT !.generationQueue = Append(s.generationQueue, payload)]

Case_UPDATE_GENERATION_REQUEST(s, payload) ==
    LET Upd(r) == IF r.id = payload.id THEN Spread(r, payload) ELSE r
    IN [s EXCEPT !.generationQueue = MapSeq(s.generationQueue, Upd)]

Case_REMOVE_GENERATION_REQUEST(s, id) ==
    [s EXCEPT !.generationQueue = WithoutId(s.generationQueue, id)]

\* variant: the new image is not added
Case_ADD_GENERATED_IMAGE_Drop(s, img) == s

\* variant: the new image replaces the list instead of joining it
Case_ADD_GENERATED_IMAGE_Replace(s, img) ==
    [s EXCEPT !.generatedImages = <<img>>]

Case_ADD_GENERATED_IMAGE(s, img) ==
    [s EXCEPT !.generatedImages = <<img>> \o s.generatedImages]

\* variant: the images edited from the deleted one go with it
Case_DELETE_GENERATED_IMAGE_Cascade(s, id) ==
    LET Keep(img) == img.id # id /\ ~("parentImageId" \in DOMAIN img /\ img.parentImageId = id)
    IN [s EXCEPT !.generatedImages = SelectSeq(s.generatedImages, Keep),
                 !.selectedImageId = IF s.selectedImageId = id THEN NULL ELSE s.selectedImageId]

Case_DELETE_GENERATED_IMAGE(s, id) ==
    [s EXCEPT !.generatedImages = WithoutId(s.generatedImages, id),
              !.selectedImageId = IF s.selectedImageId = id THEN NULL ELSE s.selectedImageId]

Case_SET_API_KEY(s, key) == [s EXCEPT !.apiKey = key]

Case_SET_MODEL_ID(s, id) == [s EXCEPT !.modelId = id]

Case_SET_VIEW(s, view) == [s EXCEPT !.view = view]

Case_SET_SELECTED_IMAGE(s, id) == [s EXCEPT !.selectedImageId = id]

Case_SET_DEFAULT_SETTINGS(s, payload) ==
    [s EXCEPT !.defaultSettings = Spread(s.defaultSettings, payload)]

\* variant: entities without a payload are not filtered out
Restore_KeepOrphans(xs, imageMap) ==
    LET Fill(x) == Spread(x, [dataUrl |-> Or(MapGet(imageMap, x.id), x.dataUrl)])
    IN MapSeq(xs, Fill)

\* dataUrl: imageMap.get(x.id) || x.dataUrl, then .filter(x => x.dataUrl)
Restore(xs, imageMap) ==
    LET Fill(x) == Spread(x, [dataUrl |-> Or(MapGet(imageMap, x.id), x.dataUrl)])
        HasData(x) == Truthy(x.dataUrl)
    IN SelectSeq(MapSeq(xs, Fill), HasData)

Case_HYDRATE_IMAGE_BLOBS(s, payload) ==
    LET Hyd(p) == Spread(p, [referenceImages |-> Restore(p.referenceImages, payload.imageMap),
                             characters |-> Restore(p.characters, payload.imageMap)])
    IN [s EXCEPT !.projects = MapSeq(s.projects, Hyd),
                 !.generatedImages = Restore(s.generatedImages, payload.imageMap),
                 !.hydrated = TRUE]

reducer(s, action) ==
    CASE action.type = "SET_API_KEY" -> Case_SET_API_KEY(s, action.payload)
      [] action.type = "UPDATE_PROJECT" -> Case_UPDATE_PROJECT(s, action.payload, action.now)
      [] action.type = "CREATE_PROJECT" -> Case_CREATE_PROJECT(s, action.payload)
      [] action.type = "DELETE_PROJECT" -> Case_DELETE_PROJECT(s, action.payload)
      [] action.type = "SET_ACTIVE_PROJECT" -> Case_SET_ACTIVE_PROJECT(s, action.payload)
      [] action.type = "ADD_REFERENCE_IMAGES_BATCH" -> Case_ADD_REFERENCE_IMAGES_BATCH(s, action.payload)
      [] action.type = "ADD_CHARACTERS_BATCH" -> Case_ADD_CHARACTERS_BATCH(s, action.payload)
      [] action.type = "ADD_GENERATION_REQUEST" -> Case_ADD_GENERATION_REQUEST(s, action.payload)
      [] action.type = "UPDATE_GENERATION_REQUEST" -> Case_UPDATE_GENERATION_REQUEST(s, action.payload)
      [] action.type = "REMOVE_GENERATION_REQUEST" -> Case_REMOVE_GENERATION_REQUEST(s, action.payload)
      [] action.type = "ADD_GENERATED_IMAGE" -> Case_ADD_GENERATED_IMAGE(s, action.payload)
      [] action.type = "SET_DEFAULT_SETTINGS" -> Case_SET_DEFAULT_SETTINGS(s, action.payload)
      [] action.type = "SET_SELECTED_IMAGE" -> Case_SET_SELECTED_IMAGE(s, action.payload)
      [] action.type = "SET_MODEL_ID" -> Case_SET_MODEL_ID(s, action.payload)
      [] action.type = "SET_VIEW" -> Case_SET_VIEW(s, action.payload)
      [] action.type = "ADD_REFERENCE_IMAGE" -> Case_ADD_REFERENCE_IMAGE(s, action.payload)
      [] action.type = "REMOVE_REFERENCE_IMAGE" -> Case_REMOVE_REFERENCE_IMAGE(s, action.payload)
      [] action.type = "DELETE_GENERATED_IMAGE" -> Case_DELETE_GENERATED_IMAGE(s, action.payload)
      [] action.type = "HYDRATE_IMAGE_BLOBS" -> Case_HYDRATE_IMAGE_BLOBS(s, action.payload)
      [] OTHER -> s

\* dispatch of several actions from one task, applied in order
RECURSIVE reduceAll(_, _)
reduceAll(s, actions) ==
    IF actions = <<>> THEN s ELSE reduceAll(reducer(s, Head(actions)), Tail(actions))

Act(type, payload) == [type |-> type, payload |-> payload]

\* an action whose reducer case reads the clock, with the value it will read
ActAt(type, payload, now) == [type |-> type, payload |-> payload, now |-> now]

----------------------------------------------------------------------------
(* store.tsx: StoreProvider effects *)

\* Action types whose reducer case builds a new projects, generatedImages or
\* defaultSettings object, so that the persist effect's dependency list changes.
NewReference ==
    {"CREATE_PROJECT", "UPDATE_PROJECT", "DELETE_PROJECT", "ADD_REFERENCE_IMAGES_BATCH", "ADD_CHARACTERS_BATCH",
     "ADD_GENERATED_IMAGE", "SET_DEFAULT_SETTINGS", "HYDRATE_IMAGE_BLOBS",
     "ADD_REFERENCE_IMAGE", "REMOVE_REFERENCE_IMAGE", "DELETE_GENERATED_IMAGE"}

\* variant: activeProjectId is missing from the dependency list
DepsChanged_NoActiveProject(s, t, actions) ==
    \/ s.apiKey # t.apiKey
    \/ s.modelId # t.modelId
    \/ s.hydrated # t.hydrated
    \/ \E i \in DOMAIN actions : actions[i].type \in NewReference

DepsChanged(s, t, actions) ==
    \/ s.apiKey # t.apiKey
    \/ s.modelId # t.modelId
    \/ s.activeProjectId # t.activeProjectId
    \/ s.hydrated # t.hydrated
    \/ \E i \in DOMAIN actions : actions[i].type \in NewReference

\* variant: the effect saves whether or not the state is hydrated
saveIfHydrated_Always(t, old, ok) == setItem(old, saveState(t), ok)

\* the body of the persist effect: if (state.hydrated) saveState(state)
saveIfHydrated(t, old, ok) == IF t.hydrated THEN setItem(old, saveState(t), ok) ELSE old

\* useEffect(() => { if (state.hydrated) saveState(state) }, [...persisted fields])
PersistEffect(s, t, actions, old, ok) ==
    IF DepsChanged(s, t, actions) THEN saveIfHydrated(t, old, ok) ELSE old

\* whether that run of the effect called saveState and its setItem threw
WriteFailed(s, t, actions, ok) == DepsChanged(s, t, actions) /\ t.hydrated /\ ~ok

Record(failed) ==
    IF lastWrite = "unrecorded" THEN "unrecorded" ELSE IF failed THEN "failed" ELSE "passed"

NoLog == [on |-> FALSE, actions |-> <<>>]

Log(actions) ==
    IF dispatched.on THEN [dispatched EXCEPT !.actions = @ \o actions] ELSE dispatched

\* dispatch(...) of the given actions followed by the render's effects, on
\* a localStorage item that holds old
DispatchFrom(old, actions) ==
    \E ok \in BOOLEAN :
        /\ state' = reduceAll(state, actions)
        /\ stored' = PersistEffect(state, state', actions, old, ok)
        /\ lastWrite' = Record(WriteFailed(state, state', actions, ok))
        /\ dispatched' = Log(actions)

Dispatch(actions) == DispatchFrom(stored, actions)

\* the persist effect of the first render: effects run once on mount
\* whatever their dependencies
PersistOnMount(ok) == saveIfHydrated(state, stored, ok)

\* a step that dispatches nothing: no render, no effect
NoDispatch ==
    /\ UNCHANGED <<state, stored, dispatched>>
    /\ lastWrite' = Record(FALSE)

----------------------------------------------------------------------------
(* The world a page load starts from *)

\* payload stored for entity i by the session that created it
OriginalPayload(i) == IF i % 2 = 1 THEN "data:image/A" ELSE "data:image/B"

Ref(i) == [id |-> i, dataUrl |-> EMPTY]

\* an image of an earlier session; the lower the id, the later it was made
Gen(i, projectId) ==
    [id |-> i, projectId |-> projectId, prompt |-> <<"a">>, dataUrl |-> EMPTY, createdAt |-> 0 - i]

\* document left by an earlier session: two projects, one reference image,
\* one character, three generated images
SavedDoc ==
    [apiKey |-> "key",
     modelId |-> DEFAULT_MODEL,
     projects |-> << [id |-> 1, referenceImages |-> <<Ref(3)>>, characters |-> <<Ref(4)>>],
                     [id |-> 2, referenceImages |-> <<>>, characters |-> <<>>] >>,
     activeProjectId |-> 1,
     generatedImages |-> <<Gen(5, 2), Gen(6, 1), Gen(7, 2)>>,
     defaultSettings |-> DEFAULT_SETTINGS]

SavedIds == {3, 4, 5, 6, 7}

FirstFreeId == 8

NoItem == [kind |-> "absent"]

InitialItems == {NoItem, [kind |-> "json", doc |-> SavedDoc]}

\* blob stores an earlier session can have left: any part of the payloads
InitialBlobs == {[i \in D |-> OriginalPayload(i)] : D \in SUBSET SavedIds}

----------------------------------------------------------------------------
(* db.ts: getMultipleImageBlobs, and the mount effect of StoreProvider *)

Mounting == [pc |-> "mount", ids |-> <<>>, next |-> 1, remaining |-> 0, results |-> EmptyMap]

IdleGeneration ==
    [isGenerating |-> FALSE, isEnhancing |-> FALSE, uploading |-> FALSE, controllers |-> {},
     isEditing |-> FALSE, selectionMask |-> Undefined,
     editPrompt |-> <<>>, useAiEnhancement |-> FALSE, handleEditMask |-> Undefined]

\* ids of every entity of s whose dataUrl is empty, in the order hydrate() collects them
EmptyIds(xs) ==
    LET NoData(x) == ~Truthy(x.dataUrl)
        IdOf(x) == x.id
    IN MapSeq(SelectSeq(xs, NoData), IdOf)

ProjectEmptyIds(p) == EmptyIds(p.referenceImages) \o EmptyIds(p.characters)

HydrateIds(s) == Flatten(MapSeq(s.projects, ProjectEmptyIds)) \o EmptyIds(s.generatedImages)

\* request.onsuccess: if (request.result?.dataUrl) results.set(id, ...); remaining--
OnReadSuccess(h, store) ==
    LET id == h.ids[h.next]
        found == IF id \in DOMAIN store THEN Truthy(store[id]) ELSE FALSE
    IN [h EXCEPT !.results = IF found THEN [k \in DOMAIN h.results \cup {id} |->
                                               IF k = id THEN store[id] ELSE h.results[k]]
                                      ELSE h.results,
                 !.remaining = h.remaining - 1,
                 !.next = h.next + 1]

\* variant: a failed read is not counted
OnReadError_NoDecrement(h) == [h EXCEPT !.next = h.next + 1]

\* request.onerror: remaining--
OnReadError(h) == [h EXCEPT !.remaining = h.remaining - 1, !.next = h.next + 1]

HydrateAction(imageMap) == Act("HYDRATE_IMAGE_BLOBS", [imageMap |-> imageMap])

\* if (remaining === 0) resolve(results), continued by the dispatch in hydrate()
AfterRead(h) ==
    IF h.remaining = 0
    THEN /\ hyd' = [h EXCEPT !.pc = "done"]
         /\ Dispatch(<<HydrateAction(h.results)>>)
    ELSE /\ hyd' = h
         /\ NoDispatch

\* ids.length === 0: dispatch an empty map at once
HydrateNothing ==
    /\ hyd.pc = "mount"
    /\ HydrateIds(state) = <<>>
    /\ hyd' = [hyd EXCEPT !.pc = "done"]
    /\ \E ok \in BOOLEAN : DispatchFrom(PersistOnMount(ok), <<HydrateAction(EmptyMap)>>)
    /\ UNCHANGED <<blobs, pendingDel, epoch, nextId, ioVars>>

\* tx('readonly') resolves: one get request per id is placed
HydrateOpen ==
    /\ hyd.pc = "mount"
    /\ HydrateIds(state) # <<>>
    /\ hyd' = [hyd EXCEPT !.pc = "reading", !.ids = HydrateIds(state),
                          !.remaining = Len(HydrateIds(state))]
    /\ \E ok \in BOOLEAN : stored' = PersistOnMount(ok)
    /\ lastWrite' = Record(FALSE)
    /\ UNCHANGED <<state, dispatched>>
    /\ UNCHANGED <<blobs, pendingDel, epoch, nextId, ioVars>>

\* tx('readonly') rejects (the database cannot be opened): the catch branch
HydrateOpenFail ==
    /\ hyd.pc = "mount"
    /\ HydrateIds(state) # <<>>
    /\ hyd' = [hyd EXCEPT !.pc = "done"]
    /\ \E ok \in BOOLEAN : DispatchFrom(PersistOnMount(ok), <<HydrateAction(EmptyMap)>>)
    /\ UNCHANGED <<blobs, pendingDel, epoch, nextId, ioVars>>

ReadSuccess ==
    /\ hyd.pc = "reading"
    /\ hyd.next <= Len(hyd.ids)
    /\ AfterRead(OnReadSuccess(hyd, blobs))
    /\ UNCHANGED <<blobs, pendingDel, epoch, nextId, ioVars>>

ReadError ==
    /\ hyd.pc = "reading"
    /\ hyd.next <= Len(hyd.ids)
    /\ AfterRead(OnReadError(hyd))
    /\ UNCHANGED <<blobs, pendingDel, epoch, nextId, ioVars>>

\* the page is loaded again: a new process starts from the stored document
Reload ==
    /\ epoch < MaxReloads
    /\ epoch' = epoch + 1
    /\ state' = getInitialState(stored)
    /\ hyd' = Mounting
    /\ panel' = IdleGeneration
    /\ batches' = <<>>
    /\ attempts' = <<>>
    /\ uploads' = <<>>
    /\ lastWrite' = Record(FALSE)
    /\ UNCHANGED <<stored, blobs, pendingDel, nextId, acked, dispatched>>

----------------------------------------------------------------------------
(* Sidebar.tsx *)

createNewProject(id) == [id |-> id, referenceImages |-> <<>>, characters |-> <<>>]

handleCreate ==
    /\ state.hydrated
    /\ nextId < FirstFreeId + MaxCreate
    /\ nextId' = nextId + 1
    /\ Dispatch(<<Act("CREATE_PROJECT", createNewProject(nextId)),
                  Act("SET_ACTIVE_PROJECT", nextId)>>)
    /\ UNCHANGED <<blobs, hyd, pendingDel, epoch, ioVars>>

\* variant: the project list is clickable while the loading screen is up
SelectProject_Ungated ==
    /\ \E i \in DOMAIN state.projects :
           Dispatch(<<Act("SET_ACTIVE_PROJECT", state.projects[i].id)>>)
    /\ UNCHANGED <<blobs, hyd, pendingDel, epoch, nextId, ioVars>>

SelectProject ==
    /\ state.hydrated
    /\ \E i \in DOMAIN state.projects :
           Dispatch(<<Act("SET_ACTIVE_PROJECT", state.projects[i].id)>>)
    /\ UNCHANGED <<blobs, hyd, pendingDel, epoch, nextId, ioVars>>

\* ids the delete button hands to deleteMultipleImageBlobs
DeleteProjectBlobIds(s, project) ==
    {project.referenceImages[i].id : i \in DOMAIN project.referenceImages}
        \cup {s.generatedImages[i].id :
                 i \in {j \in DOMAIN s.generatedImages : s.generatedImages[j].projectId = project.id}}

DeleteProjectClick ==
    /\ state.hydrated
    /\ \E i \in DOMAIN state.projects :
           LET project == state.projects[i]
               allIds == DeleteProjectBlobIds(state, project)
           IN /\ pendingDel' = IF allIds # {} THEN pendingDel \cup {allIds} ELSE pendingDel
              /\ Dispatch(<<Act("DELETE_PROJECT", project.id)>>)
    /\ UNCHANGED <<blobs, hyd, epoch, nextId, ioVars>>

\* db.ts deleteMultipleImageBlobs: transaction.oncomplete
DeleteBlobsComplete ==
    /\ \E ids \in pendingDel :
           /\ blobs' = [k \in DOMAIN blobs \ ids |-> blobs[k]]
           /\ pendingDel' = pendingDel \ {ids}
    /\ NoDispatch
    /\ UNCHANGED <<hyd, epoch, nextId, ioVars>>

\* db.ts deleteMultipleImageBlobs: transaction.onerror, swallowed by .catch
DeleteBlobsFail ==
    /\ \E ids \in pendingDel : pendingDel' = pendingDel \ {ids}
    /\ NoDispatch
    /\ UNCHANGED <<blobs, hyd, epoch, nextId, ioVars>>

----------------------------------------------------------------------------
(* Startup, projects and reloads *)

Init ==
    /\ stored \in InitialItems
    /\ blobs \in InitialBlobs
    /\ stored = NoItem => blobs = EmptyMap
    /\ state = getInitialState(stored)
    /\ hyd = Mounting
    /\ pendingDel = {}
    /\ epoch = 0
    /\ nextId = FirstFreeId
    /\ panel = IdleGeneration
    /\ batches = <<>>
    /\ attempts = <<>>
    /\ uploads = <<>>
    /\ acked = DOMAIN blobs
    /\ lastWrite = "unrecorded"
    /\ dispatched = NoLog

HydrationStep == HydrateNothing \/ HydrateOpen \/ HydrateOpenFail \/ ReadSuccess \/ ReadError

Next ==
    \/ HydrateNothing
    \/ HydrateOpen
    \/ HydrateOpenFail
    \/ ReadSuccess
    \/ ReadError
    \/ Reload
    \/ handleCreate
    \/ SelectProject

Spec == Init /\ [][Next]_vars

\* the browser runs every queued callback of the hydrate() call
FairSpec == Spec /\ WF_vars(HydrationStep)

----------------------------------------------------------------------------
(* Project list of a hydrated session *)

FullBlobs == [i \in SavedIds |-> OriginalPayload(i)]

InitProjects ==
    /\ stored = [kind |-> "json", doc |-> SavedDoc]
    /\ blobs = FullBlobs
    /\ state = Case_HYDRATE_IMAGE_BLOBS(getInitialState(stored), [imageMap |-> FullBlobs])
    /\ hyd = [pc |-> "done", ids |-> HydrateIds(getInitialState(stored)),
              next |-> Cardinality(SavedIds) + 1, remaining |-> 0, results |-> FullBlobs]
    /\ pendingDel = {}
    /\ epoch = 0
    /\ nextId = FirstFreeId
    /\ panel = IdleGeneration
    /\ batches = <<>>
    /\ attempts = <<>>
    /\ uploads = <<>>
    /\ acked = DOMAIN blobs
    /\ lastWrite = "unrecorded"
    /\ dispatched = NoLog

\* SettingsBar.tsx: the variation counts offered
VariationChoices == {1, 2, 3, 4, 6}

\* SettingsBar.tsx: a variation count button
SetVariations ==
    /\ state.hydrated
    /\ \E n \in VariationChoices :
           /\ n <= MaxVariations
           /\ Dispatch(<<Act("SET_DEFAULT_SETTINGS", [numberOfVariations |-> n])>>)
    /\ UNCHANGED <<blobs, hyd, pendingDel, epoch, nextId, ioVars>>

NextProjects ==
    \/ handleCreate
    \/ SelectProject
    \/ SetVariations
    \/ DeleteProjectClick
    \/ DeleteBlobsComplete
    \/ DeleteBlobsFail

SpecProjects == InitProjects /\ [][NextProjects]_vars

----------------------------------------------------------------------------
(* Properties *)

IdsOf(xs) == IdsOfSeq(xs)

ProjectIds(s) == IdsOf(s.projects)

ProjectEntities(p) == p.referenceImages \o p.characters

\* every reference image, character and generated image of s, in order
Entities(s) == Flatten(MapSeq(s.projects, ProjectEntities)) \o s.generatedImages

EntityIds(s) == IdsOf(Entities(s))

DocEntities(doc) == Flatten(MapSeq(doc.projects, ProjectEntities)) \o doc.generatedImages

\* the step in which hydrate() dispatches HYDRATE_IMAGE_BLOBS
HydrateDispatched == hyd.pc # "done" /\ hyd'.pc = "done"

\* C1: when HYDRATE_IMAGE_BLOBS is applied, every id listed in the loaded
\* metadata that is missing from the map read from the blob store names no
\* entity of the new state, every listed id that is in the map still names
\* one, and hydrated is true.
C1_OrphansDropped ==
    [][HydrateDispatched =>
          /\ \A id \in EntityIds(state) :
                 IF id \in DOMAIN hyd'.results
                 THEN id \in EntityIds(state')
                 ELSE id \notin EntityIds(state')
          /\ EntityIds(state') \subseteq EntityIds(state)
          /\ state'.hydrated]_vars

\* C1 witness: hydration finished with one listed id read and another not
C1_Witness ==
    /\ hyd.pc = "done"
    /\ state.hydrated
    /\ 5 \in DOMAIN hyd.results /\ 5 \in EntityIds(state)
    /\ 3 \in Range(hyd.ids) /\ 3 \notin DOMAIN hyd.results /\ 3 \notin EntityIds(state)

\* blob store that holds the payload of every entity of s
PayloadsOf(s) ==
    LET es == Entities(s)
    IN [id \in IdsOf(es) |-> (CHOOSE e \in Range(es) : e.id = id).dataUrl]

\* the state a later page load builds from the document saveState writes for s
Reloaded(s) == getInitialState(setItem(NoItem, saveState(s), TRUE))

\* C2: the document written by saveState and read back by loadState has an
\* empty dataUrl for every entity, and hydrating it against a blob store that
\* holds every original payload gives back the same projects and generated
\* images, with the original payloads, none lost and in the same order.
C2_RoundTrip ==
    state.hydrated =>
        /\ \A e \in Range(Entities(Reloaded(state))) : e.dataUrl = EMPTY
        /\ LET back == Case_HYDRATE_IMAGE_BLOBS(Reloaded(state), [imageMap |-> PayloadsOf(state)])
           IN /\ back.projects = state.projects
              /\ back.generatedImages = state.generatedImages
              /\ back.hydrated

\* C2 witness: a hydrated state with a reference image, a character and
\* several generated images, all with their payloads
C2_Witness ==
    /\ state.hydrated
    /\ EntityIds(state) = SavedIds
    /\ \A e \in Range(Entities(state)) : e.dataUrl = OriginalPayload(e.id)

\* C4: hydration always completes, whatever the blob store does, and hydrated
\* stays true for the rest of the process (until the page is loaded again).
C4_HydrationCompletes ==
    /\ (~state.hydrated) ~> state.hydrated
    /\ [][(state.hydrated /\ epoch' = epoch) => state'.hydrated]_vars

\* C4 witness: hydrated although a stored payload could not be read
C4_Witness ==
    /\ state.hydrated
    /\ hyd.pc = "done"
    /\ hyd.ids # <<>>
    /\ \E id \in Range(hyd.ids) : id \in DOMAIN blobs /\ id \notin DOMAIN hyd.results

\* C5: an entity whose payload is still in the blob store stays listed in the
\* metadata document, also after a hydration whose reads faulted.
C5_DroppedStillListed ==
    stored.kind = "json" =>
        \A id \in SavedIds \cap DOMAIN blobs : id \in IdsOf(DocEntities(stored.doc))

\* the project a DELETE_PROJECT step removed
Deleted(P) == P \in ProjectIds(state) /\ P \notin ProjectIds(state')

\* C6: DELETE_PROJECT(P) removes project P and every generated image of P in
\* one transition; the other projects and the generated images of other
\* projects are unchanged and keep their order.
C6_DeleteProjectFrame ==
    [][\A P \in ProjectIds(state) :
          Deleted(P) =>
              LET OtherImage(img) == img.projectId # P
              IN /\ state'.projects = WithoutId(state.projects, P)
                 /\ state'.generatedImages = SelectSeq(state.generatedImages, OtherImage)
                 /\ \A i \in DOMAIN state'.generatedImages :
                        state'.generatedImages[i].projectId # P]_vars

\* C6 witness: project 1 is gone with its image, the two images of project 2
\* are left in their order
C6_Witness ==
    /\ 1 \notin ProjectIds(state)
    /\ 2 \in ProjectIds(state)
    /\ MapSeq(state.generatedImages, LAMBDA img : img.id) = <<5, 7>>

ActiveProjectValid(s) == s.activeProjectId = NULL \/ s.activeProjectId \in ProjectIds(s)

\* C7: deleting the active project makes the first remaining project active,
\* or none when no project remains; deleting another project leaves the active
\* project id unchanged; so the active project id is always null or the id of
\* an existing project.
C7_ActiveProject ==
    /\ []ActiveProjectValid(state)
    /\ [][\A P \in ProjectIds(state) :
             Deleted(P) =>
                 state'.activeProjectId =
                     IF state.activeProjectId # P THEN state.activeProjectId
                     ELSE IF state'.projects = <<>> THEN NULL
                     ELSE state'.projects[1].id]_vars

\* C7 witness: the active project 1 was deleted and project 2 took its place
C7_Witness ==
    /\ 1 \notin ProjectIds(state)
    /\ state.projects # <<>>
    /\ state.projects[1].id = 2
    /\ state.activeProjectId = 2
    /\ pendingDel # {}

----------------------------------------------------------------------------
(* GenerationPanel.tsx: startGeneration, cancelAll *)

\* texts typed in the prompt field, as sequences of characters
Prompts == {<<"a">>, <<" ", "a", " ">>, <<" ">>}

RECURSIVE TrimStart(_)
TrimStart(t) == IF t # <<>> /\ Head(t) = " " THEN TrimStart(Tail(t)) ELSE t

RECURSIVE TrimEnd(_)
TrimEnd(t) == IF t # <<>> /\ t[Len(t)] = " " THEN TrimEnd(SubSeq(t, 1, Len(t) - 1)) ELSE t

\* String.prototype.trim
Trim(t) == TrimEnd(TrimStart(t))

\* gemini.ts enhancePrompt: the text the enhancement call resolves with
enhancePrompt(t) == t \o <<"+">>

\* useStore: activeProject = projects.find(p => p.id === activeProjectId) || null
HasActiveProject(s) == \E i \in DOMAIN s.projects : s.projects[i].id = s.activeProjectId

ActiveProject(s) == s.projects[CHOOSE i \in DOMAIN s.projects : s.projects[i].id = s.activeProjectId]

\* f extended by g on new keys
Extend(f, g) == [k \in DOMAIN f \cup DOMAIN g |-> IF k \in DOMAIN g THEN g[k] ELSE f[k]]

IdSeq(first, n) == [i \in 1..n |-> first + i - 1]

NewRequest(id, b) == [id |-> id, projectId |-> b.project, prompt |-> b.prompt, status |-> "pending"]

\* the values Date.now() has returned: createdAt in the images of the state
\* and of the attempts, updatedAt in the projects
Stamps(s, atts) ==
    {s.generatedImages[i].createdAt : i \in DOMAIN s.generatedImages}
        \cup {s.projects[i].updatedAt :
                  i \in {j \in DOMAIN s.projects : "updatedAt" \in DOMAIN s.projects[j]}}
        \cup {atts[r].result.createdAt : r \in {q \in DOMAIN atts : "result" \in DOMAIN atts[q]}}

\* Date.now() of a call made later than every call before it (the session
\* starts at 0)
DateNow(s, atts) ==
    LET seen == Stamps(s, atts) \cup {0}
    IN 1 + CHOOSE m \in seen : \A x \in seen : x <= m

\* gemini.ts generateImage: the GeneratedImage a successful call returns
generateImage(id, prompt, projectId, now) ==
    [id |-> id, projectId |-> projectId, prompt |-> prompt, dataUrl |-> OriginalPayload(id),
     createdAt |-> now]

\* const resultWithBatch = { ...result, batchId }
resultWithBatch(result, batchId) == Spread(result, [batchId |-> batchId])

\* error names a rejected IndexedDB request can carry: the engine's own
\* errors, and AbortError when the transaction is aborted under the request
StorageErrors == {"QuotaExceededError", "AbortError"}

\* the part of startGeneration after the optional enhancement: one request
\* per variation is queued, then every attempt starts its call
Launch(bi, b, first) ==
    LET ids == IdSeq(first, b.count)
        adds == [i \in 1..b.count |-> Act("ADD_GENERATION_REQUEST", NewRequest(ids[i], b))]
        starts == [i \in 1..b.count |->
                      Act("UPDATE_GENERATION_REQUEST", [id |-> ids[i], status |-> "generating"])]
        \* uuid() values are arbitrary fresh ids: the one generateImage will
        \* give its result is drawn here, with the request's
        started == [r \in Range(ids) |-> [batch |-> bi, pc |-> "api", aborted |-> FALSE,
                                          outcome |-> "none", resultId |-> r + b.count]]
    IN /\ batches' = [i \in 1..(IF bi > Len(batches) THEN bi ELSE Len(batches)) |->
                         IF i = bi THEN [b EXCEPT !.pc = "running", !.requestIds = ids]
                         ELSE batches[i]]
       /\ attempts' = Extend(attempts, started)
       /\ panel' = [panel EXCEPT !.isGenerating = TRUE, !.isEnhancing = FALSE,
                                 !.controllers = panel.controllers \cup Range(ids)]
       /\ nextId' = first + 2 * b.count
       /\ Dispatch(adds \o starts)

startGeneration ==
    /\ state.hydrated
    /\ ~panel.isGenerating
    /\ ~panel.isEnhancing
    /\ Len(batches) < MaxBatches
    /\ Cardinality(DOMAIN attempts) + state.defaultSettings.numberOfVariations <= MaxAttempts
    /\ HasActiveProject(state)
    /\ Truthy(state.apiKey)
    /\ \E t \in Prompts, useAiEnhancement \in BOOLEAN :
           /\ Trim(t) # <<>>
           /\ LET b == [id |-> nextId, project |-> state.activeProjectId, prompt |-> Trim(t),
                        submitted |-> Trim(t), count |-> state.defaultSettings.numberOfVariations,
                        enhanced |-> FALSE, pc |-> "enhancing", requestIds |-> <<>>]
              IN IF useAiEnhancement
                 THEN /\ batches' = Append(batches, b)
                      /\ panel' = [panel EXCEPT !.isEnhancing = TRUE]
                      /\ nextId' = nextId + 1
                      /\ NoDispatch
                      /\ UNCHANGED <<attempts>>
                 ELSE Launch(Len(batches) + 1, b, nextId + 1)
    /\ UNCHANGED <<blobs, hyd, pendingDel, epoch, uploads, acked>>

\* enhancePrompt resolved (ok) or threw: the original prompt is kept on failure
EnhanceDone ==
    /\ \E bi \in DOMAIN batches, ok \in BOOLEAN :
           /\ batches[bi].pc = "enhancing"
           /\ Launch(bi, [batches[bi] EXCEPT !.prompt = IF ok THEN enhancePrompt(@) ELSE @,
                                             !.enhanced = ok], nextId)
    /\ UNCHANGED <<blobs, hyd, pendingDel, epoch, uploads, acked>>

BatchDone(as, bi) == \A r \in DOMAIN as : as[r].batch = bi => as[r].pc = "done"

\* the finally block of an attempt, and the code after Promise.allSettled
\* once the last attempt of the batch has settled
Settle(r, outcome) ==
    LET bi == attempts[r].batch
        \* after request.onsuccess the transaction that carried the put is still open
        end == IF outcome = "saved"
               THEN [pc |-> "done", outcome |-> outcome, tx |-> "open"]
               ELSE [pc |-> "done", outcome |-> outcome]
    IN /\ attempts' = [attempts EXCEPT ![r] = Spread(@, end)]
       /\ batches' = [batches EXCEPT ![bi].pc = IF BatchDone(attempts', bi) THEN "done" ELSE @]
       /\ panel' = [panel EXCEPT !.controllers = panel.controllers \ {r},
                                 !.isGenerating = IF BatchDone(attempts', bi) THEN FALSE ELSE @]

\* generateImage resolved: the result is handed to saveImageBlob
ApiSuccess ==
    /\ \E r \in DOMAIN attempts :
           /\ attempts[r].pc = "api"
           /\ ~attempts[r].aborted
           /\ LET b == batches[attempts[r].batch]
                  result == generateImage(attempts[r].resultId, b.prompt, b.project,
                                         DateNow(state, attempts))
              IN attempts' = [attempts EXCEPT ![r] =
                     Spread(@, [pc |-> "saving", result |-> resultWithBatch(result, b.id)])]
    /\ NoDispatch
    /\ UNCHANGED <<blobs, hyd, pendingDel, epoch, nextId, panel, batches, uploads, acked>>

\* generateImage threw an error other than AbortError
ApiFail ==
    /\ \E r \in DOMAIN attempts :
           /\ attempts[r].pc = "api"
           /\ ~attempts[r].aborted
           /\ Settle(r, "apiError")
           /\ Dispatch(<<Act("UPDATE_GENERATION_REQUEST",
                             [id |-> r, status |-> "error", error |-> "API error"])>>)
    /\ UNCHANGED <<blobs, hyd, pendingDel, epoch, nextId, uploads, acked>>

\* the fetch was aborted through the attempt's controller: AbortError, return
ApiAborted ==
    /\ \E r \in DOMAIN attempts :
           /\ attempts[r].pc = "api"
           /\ attempts[r].aborted
           /\ Settle(r, "aborted")
    /\ NoDispatch
    /\ UNCHANGED <<blobs, hyd, pendingDel, epoch, nextId, uploads, acked>>

\* db.ts saveImageBlob: request.onsuccess, then the two dispatches
SaveSuccess ==
    /\ \E r \in DOMAIN attempts :
           /\ attempts[r].pc = "saving"
           /\ LET img == attempts[r].result
              IN /\ blobs' = Extend(blobs, [k \in {img.id} |-> img.dataUrl])
                 /\ acked' = acked \cup {img.id}
                 /\ Settle(r, "saved")
                 /\ Dispatch(<<Act("ADD_GENERATED_IMAGE", img),
                               Act("UPDATE_GENERATION_REQUEST",
                                   [id |-> r, status |-> "completed", result |-> img])>>)
    /\ UNCHANGED <<hyd, pendingDel, epoch, nextId, uploads>>

\* the catch block of an attempt for an error thrown by saveImageBlob
CatchSaveError(r, name) ==
    IF name = "AbortError"
    THEN NoDispatch
    ELSE Dispatch(<<Act("UPDATE_GENERATION_REQUEST", [id |-> r, status |-> "error", error |-> name])>>)

\* db.ts saveImageBlob: request.onerror rejects with request.error
SaveFail ==
    /\ \E r \in DOMAIN attempts, name \in StorageErrors :
           /\ attempts[r].pc = "saving"
           /\ Settle(r, "saveError")
           /\ CatchSaveError(r, name)
    /\ UNCHANGED <<blobs, hyd, pendingDel, epoch, nextId, uploads, acked>>

IsActive(req) == req.status = "pending" \/ req.status = "generating"

cancelAll ==
    /\ state.hydrated
    /\ panel.isGenerating
    /\ attempts' = [r \in DOMAIN attempts |->
                       IF r \in panel.controllers THEN [attempts[r] EXCEPT !.aborted = TRUE]
                       ELSE attempts[r]]
    /\ panel' = [panel EXCEPT !.controllers = {}, !.isGenerating = FALSE]
    /\ LET active == SelectSeq(state.generationQueue, IsActive)
       IN Dispatch([i \in DOMAIN active |-> Act("REMOVE_GENERATION_REQUEST", active[i].id)])
    /\ UNCHANGED <<blobs, hyd, pendingDel, epoch, nextId, batches, uploads, acked>>

\* the x button of a failed request
DismissError ==
    /\ state.hydrated
    /\ \E i \in DOMAIN state.generationQueue :
           /\ state.generationQueue[i].status = "error"
           /\ Dispatch(<<Act("REMOVE_GENERATION_REQUEST", state.generationQueue[i].id)>>)
    /\ UNCHANGED <<blobs, hyd, pendingDel, epoch, nextId, ioVars>>

----------------------------------------------------------------------------
(* ProjectSettings.tsx: handleImageUpload, handleCharacterUpload;
   App.tsx: handleDrop *)

MAX_REFERENCES == 20

MAX_CHARACTERS == 20

Min(a, b) == IF a < b THEN a ELSE b

UploadTotal == Len(uploads)

\* the entities built from the compressed files, ids from uuid()
NewImages(first, n) == [i \in 1..n |-> [id |-> first + i - 1, dataUrl |-> OriginalPayload(first + i - 1)]]

\* a file input change: files.slice(0, remaining), then compressImages is awaited
PickFiles ==
    /\ state.hydrated
    /\ ~panel.uploading
    /\ UploadTotal < MaxUploads
    /\ HasActiveProject(state)
    /\ \E kind \in {"reference", "character"}, n \in 1..MaxFiles :
           LET project == ActiveProject(state)
               room == IF kind = "reference"
                       THEN MAX_REFERENCES - Len(project.referenceImages)
                       ELSE MAX_CHARACTERS - Len(project.characters)
           IN /\ Min(n, room) > 0
              /\ uploads' = Append(uploads, [kind |-> kind, project |-> project.id, pc |-> "compressing",
                                             files |-> Min(n, room), images |-> <<>>, saved |-> 0])
    /\ panel' = [panel EXCEPT !.uploading = TRUE]
    /\ NoDispatch
    /\ UNCHANGED <<blobs, hyd, pendingDel, epoch, nextId, batches, attempts, acked>>

\* files dropped on the window: image files only, then compressImages is awaited
handleDrop ==
    /\ state.hydrated
    /\ UploadTotal < MaxUploads
    /\ HasActiveProject(state)
    /\ \E n \in 1..MaxFiles :
           uploads' = Append(uploads, [kind |-> "drop", project |-> state.activeProjectId,
                                       pc |-> "compressing", files |-> n, images |-> <<>>, saved |-> 0])
    /\ NoDispatch
    /\ UNCHANGED <<blobs, hyd, pendingDel, epoch, nextId, panel, batches, attempts, acked>>

BatchAction(u, images) ==
    IF u.kind = "character"
    THEN Act("ADD_CHARACTERS_BATCH", [projectId |-> u.project, characters |-> images])
    ELSE Act("ADD_REFERENCE_IMAGES_BATCH", [projectId |-> u.project, images |-> images])

\* compressImages resolved with m of the files (files that fail are skipped)
CompressDone ==
    /\ \E i \in DOMAIN uploads, m \in 0..MaxFiles :
           LET u == uploads[i]
               images == NewImages(nextId, m)
           IN /\ u.pc = "compressing"
              /\ m <= u.files
              /\ nextId' = nextId + m
              /\ IF m = 0 /\ u.kind # "drop"
                 THEN \* compressed.length === 0: return
                      /\ uploads' = [uploads EXCEPT ![i].pc = "done"]
                      /\ panel' = [panel EXCEPT !.uploading = FALSE]
                      /\ NoDispatch
                 ELSE IF m = 0
                 THEN \* nothing to save: the empty batch is dispatched
                      /\ uploads' = [uploads EXCEPT ![i].pc = "done"]
                      /\ Dispatch(<<BatchAction(u, images)>>)
                      /\ UNCHANGED panel
                 ELSE /\ uploads' = [uploads EXCEPT ![i].pc = "saving", ![i].images = images]
                      /\ NoDispatch
                      /\ UNCHANGED <<panel>>
    /\ UNCHANGED <<blobs, hyd, pendingDel, epoch, batches, attempts, acked>>

\* db.ts saveMultipleImageBlobs: transaction.oncomplete, then the dispatch
PickSaveSuccess ==
    /\ \E i \in DOMAIN uploads :
           LET u == uploads[i]
           IN /\ u.pc = "saving"
              /\ u.kind # "drop"
              /\ blobs' = Extend(blobs, [k \in IdsOfSeq(u.images) |-> OriginalPayload(k)])
              /\ acked' = acked \cup IdsOfSeq(u.images)
              /\ uploads' = [uploads EXCEPT ![i].pc = "done", ![i].saved = Len(u.images)]
              /\ Dispatch(<<BatchAction(u, u.images)>>)
    /\ panel' = [panel EXCEPT !.uploading = FALSE]
    /\ UNCHANGED <<hyd, pendingDel, epoch, nextId, batches, attempts>>

\* db.ts saveMultipleImageBlobs: transaction.onerror, caught by the handler
PickSaveFail ==
    /\ \E i \in DOMAIN uploads :
           /\ uploads[i].pc = "saving"
           /\ uploads[i].kind # "drop"
           /\ uploads' = [uploads EXCEPT ![i].pc = "failed"]
    /\ panel' = [panel EXCEPT !.uploading = FALSE]
    /\ NoDispatch
    /\ UNCHANGED <<blobs, hyd, pendingDel, epoch, nextId, batches, attempts, acked>>

\* handleDrop: the next saveImageBlob of the loop resolved; after the last
\* one the batch is dispatched
DropSaveSuccess ==
    /\ \E i \in DOMAIN uploads :
           LET u == uploads[i]
               img == u.images[u.saved + 1]
           IN /\ u.pc = "saving"
              /\ u.kind = "drop"
              /\ blobs' = Extend(blobs, [k \in {img.id} |-> img.dataUrl])
              /\ acked' = acked \cup {img.id}
              /\ IF u.saved + 1 = Len(u.images)
                 THEN /\ uploads' = [uploads EXCEPT ![i].pc = "done", ![i].saved = u.saved + 1]
                      /\ Dispatch(<<BatchAction(u, u.images)>>)
                 ELSE /\ uploads' = [uploads EXCEPT ![i].saved = u.saved + 1]
                      /\ NoDispatch
    /\ UNCHANGED <<hyd, pendingDel, epoch, nextId, panel, batches, attempts>>

\* handleDrop: a saveImageBlob of the loop rejected; the catch block
DropSaveFail ==
    /\ \E i \in DOMAIN uploads :
           /\ uploads[i].pc = "saving"
           /\ uploads[i].kind = "drop"
           /\ uploads' = [uploads EXCEPT ![i].pc = "failed"]
    /\ NoDispatch
    /\ UNCHANGED <<blobs, hyd, pendingDel, epoch, nextId, panel, batches, attempts, acked>>

----------------------------------------------------------------------------
(* A hydrated session with two projects: generation and uploads *)

WorkDoc(n) ==
    [apiKey |-> "key",
     modelId |-> DEFAULT_MODEL,
     projects |-> << createNewProject(1), createNewProject(2) >>,
     activeProjectId |-> 1,
     generatedImages |-> <<>>,
     defaultSettings |-> Spread(DEFAULT_SETTINGS, [numberOfVariations |-> n])]

FirstWorkId == 3

InitWork ==
    /\ \E n \in VariationChoices :
           /\ n <= MaxVariations
           /\ stored = [kind |-> "json", doc |-> WorkDoc(n)]
    /\ blobs = EmptyMap
    /\ state = Case_HYDRATE_IMAGE_BLOBS(getInitialState(stored), [imageMap |-> EmptyMap])
    /\ hyd = [Mounting EXCEPT !.pc = "done"]
    /\ pendingDel = {}
    /\ epoch = 0
    /\ nextId = FirstWorkId
    /\ panel = IdleGeneration
    /\ batches = <<>>
    /\ attempts = <<>>
    /\ uploads = <<>>
    /\ acked = {}
    /\ lastWrite = "unrecorded"
    /\ dispatched = NoLog

NextGen ==
    \/ startGeneration
    \/ EnhanceDone
    \/ ApiSuccess
    \/ ApiFail
    \/ ApiAborted
    \/ SaveSuccess
    \/ SaveFail
    \/ cancelAll
    \/ DismissError
    \/ SelectProject

SpecGen == InitWork /\ [][NextGen]_vars

NextUpload ==
    \/ PickFiles
    \/ handleDrop
    \/ CompressDone
    \/ PickSaveSuccess
    \/ PickSaveFail
    \/ DropSaveSuccess
    \/ DropSaveFail
    \/ SelectProject

SpecUpload == InitWork /\ [][NextUpload]_vars

----------------------------------------------------------------------------
(* EditPanel.tsx: handleEdit *)

\* the mask the selection tool draws: ImageEditor's maskCanvas.toDataURL
MaskPayload == "data:image/png;mask"

\* StoreProvider: projectImages = generatedImages of the active project
projectImages(s) ==
    LET Mine(img) == img.projectId = s.activeProjectId
    IN SelectSeq(s.generatedImages, Mine)

HasSelectedImage(s) ==
    /\ s.selectedImageId # NULL
    /\ \E i \in DOMAIN projectImages(s) : projectImages(s)[i].id = s.selectedImageId

\* gemini.ts generateImage called with a source image and a mask: the result
\* names its parent; whether it carries the mask it was given is left open
editImage(id, prompt, projectId, sourceId, mask, carriesMask, now) ==
    LET result == Spread(generateImage(id, prompt, projectId, now), [parentImageId |-> sourceId])
    IN IF mask # Undefined /\ carriesMask THEN Spread(result, [maskDataUrl |-> mask]) ELSE result

\* useCallback(handleEdit, deps): a render in which one of the dependencies
\* changed makes a new handleEdit, which closes over the selectionMask of
\* that render; any other render keeps the handleEdit it had. The
\* dependencies are editPrompt, selectedImage, activeProject, apiKey,
\* modelId, defaultSettings, dispatch and useAiEnhancement.
useCallback(p, depsChanged) ==
    IF depsChanged THEN [p EXCEPT !.handleEditMask = p.selectionMask] ELSE p

\* a thumbnail of the edit panel
SelectImage ==
    /\ state.hydrated
    /\ \E i \in DOMAIN projectImages(state) :
           /\ Dispatch(<<Act("SET_SELECTED_IMAGE", projectImages(state)[i].id)>>)
           /\ panel' = useCallback(panel, projectImages(state)[i].id # state.selectedImageId)
    /\ UNCHANGED <<blobs, hyd, pendingDel, epoch, nextId, batches, attempts, uploads, acked>>

\* the prompt field of the edit panel: onChange
setEditPrompt ==
    /\ state.hydrated
    /\ HasSelectedImage(state)
    /\ ~panel.isEditing
    /\ \E t \in Prompts :
           /\ t # panel.editPrompt
           /\ panel' = useCallback([panel EXCEPT !.editPrompt = t], TRUE)
    /\ NoDispatch
    /\ UNCHANGED <<blobs, hyd, pendingDel, epoch, nextId, batches, attempts, uploads, acked>>

\* the AI enhancement checkbox of the edit panel: onChange
setUseAiEnhancement ==
    /\ state.hydrated
    /\ HasSelectedImage(state)
    /\ ~panel.isEditing
    /\ panel' = useCallback([panel EXCEPT !.useAiEnhancement = ~@], TRUE)
    /\ NoDispatch
    /\ UNCHANGED <<blobs, hyd, pendingDel, epoch, nextId, batches, attempts, uploads, acked>>

\* ImageEditor onMaskChange, and the selection tool checkbox clearing the
\* mask (the cleared mask, null, is the falsy Undefined here)
setSelectionMask ==
    /\ state.hydrated
    /\ HasSelectedImage(state)
    /\ ~panel.isEditing
    /\ \E mask \in {Undefined, MaskPayload} :
           /\ mask # panel.selectionMask
           /\ panel' = [panel EXCEPT !.selectionMask = mask]
    /\ NoDispatch
    /\ UNCHANGED <<blobs, hyd, pendingDel, epoch, nextId, batches, attempts, uploads, acked>>

IsEdit(a) == a.pc \in {"editApi", "editSaving", "editDone"}

EditDone(as) == \A r \in DOMAIN as : IsEdit(as[r]) => as[r].pc = "editDone"

\* handleEdit up to the point where every attempt has started its call; the
\* prompt is the trimmed text or what enhancePrompt made of it (the text
\* itself when the enhancement call fails), and the mask is the one the
\* memoized callback closed over
handleEdit ==
    /\ state.hydrated
    /\ ~panel.isEditing
    /\ HasSelectedImage(state)
    /\ HasActiveProject(state)
    /\ Truthy(state.apiKey)
    /\ Cardinality(DOMAIN attempts) + state.defaultSettings.numberOfVariations <= MaxAttempts
    /\ \E enhanced \in (IF panel.useAiEnhancement THEN BOOLEAN ELSE {FALSE}) :
           /\ Trim(panel.editPrompt) # <<>>
           /\ LET count == state.defaultSettings.numberOfVariations
                  t == panel.editPrompt
                  started == [r \in nextId..(nextId + count - 1) |->
                                 [batch |-> 0, pc |-> "editApi", aborted |-> FALSE, outcome |-> "none",
                                  resultId |-> r, project |-> state.activeProjectId,
                                  prompt |-> IF enhanced THEN enhancePrompt(Trim(t)) ELSE Trim(t),
                                  source |-> state.selectedImageId,
                                  mask |-> Or(panel.handleEditMask, Undefined)]]
              IN /\ attempts' = Extend(attempts, started)
                 /\ nextId' = nextId + count
    /\ panel' = [panel EXCEPT !.isEditing = TRUE]
    /\ NoDispatch
    /\ UNCHANGED <<blobs, hyd, pendingDel, epoch, batches, uploads, acked>>

\* the end of an edit attempt, and the code after Promise.allSettled
SettleEdit(r, outcome) ==
    /\ attempts' = [attempts EXCEPT ![r] = Spread(@, [pc |-> "editDone", outcome |-> outcome])]
    /\ panel' = [panel EXCEPT !.isEditing = IF EditDone(attempts') THEN FALSE ELSE @]

\* generateImage resolved: the result is handed to saveImageBlob
EditApiSuccess ==
    /\ \E r \in DOMAIN attempts, carriesMask \in BOOLEAN :
           LET a == attempts[r]
           IN /\ a.pc = "editApi"
              /\ attempts' = [attempts EXCEPT ![r] =
                     Spread(@, [pc |-> "editSaving",
                                result |-> editImage(a.resultId, a.prompt, a.project, a.source,
                                                     a.mask, carriesMask,
                                                     DateNow(state, attempts))])]
    /\ NoDispatch
    /\ UNCHANGED <<blobs, hyd, pendingDel, epoch, nextId, panel, batches, uploads, acked>>

\* generateImage threw: the message joins the panel's error list
EditApiFail ==
    /\ \E r \in DOMAIN attempts :
           /\ attempts[r].pc = "editApi"
           /\ SettleEdit(r, "apiError")
    /\ NoDispatch
    /\ UNCHANGED <<blobs, hyd, pendingDel, epoch, nextId, batches, uploads, acked>>

\* db.ts saveImageBlob: request.onsuccess, then ADD_GENERATED_IMAGE
EditSaveSuccess ==
    /\ \E r \in DOMAIN attempts :
           /\ attempts[r].pc = "editSaving"
           /\ LET img == attempts[r].result
              IN /\ blobs' = Extend(blobs, [k \in {img.id} |-> img.dataUrl])
                 /\ acked' = acked \cup {img.id}
                 /\ SettleEdit(r, "saved")
                 /\ Dispatch(<<Act("ADD_GENERATED_IMAGE", img)>>)
    /\ UNCHANGED <<hyd, pendingDel, epoch, nextId, batches, uploads>>

\* db.ts saveImageBlob: request.onerror
EditSaveFail ==
    /\ \E r \in DOMAIN attempts :
           /\ attempts[r].pc = "editSaving"
           /\ SettleEdit(r, "saveError")
    /\ NoDispatch
    /\ UNCHANGED <<blobs, hyd, pendingDel, epoch, nextId, batches, uploads, acked>>

\* a hydrated session over the saved document
InitEdit ==
    /\ \E n \in VariationChoices :
           /\ n <= MaxVariations
           /\ stored = [kind |-> "json",
                        doc |-> Spread(SavedDoc, [defaultSettings |->
                                   Spread(DEFAULT_SETTINGS, [numberOfVariations |-> n])])]
    /\ blobs = FullBlobs
    /\ state = Case_HYDRATE_IMAGE_BLOBS(getInitialState(stored), [imageMap |-> FullBlobs])
    /\ hyd = [pc |-> "done", ids |-> HydrateIds(getInitialState(stored)),
              next |-> Cardinality(SavedIds) + 1, remaining |-> 0, results |-> FullBlobs]
    /\ pendingDel = {}
    /\ epoch = 0
    /\ nextId = FirstFreeId
    /\ panel = IdleGeneration
    /\ batches = <<>>
    /\ attempts = <<>>
    /\ uploads = <<>>
    /\ acked = DOMAIN blobs
    /\ lastWrite = "unrecorded"
    /\ dispatched = NoLog

NextEdit ==
    \/ SelectImage
    \/ setEditPrompt
    \/ setUseAiEnhancement
    \/ setSelectionMask
    \/ handleEdit
    \/ EditApiSuccess
    \/ EditApiFail
    \/ EditSaveSuccess
    \/ EditSaveFail

SpecEdit == InitEdit /\ [][NextEdit]_vars

----------------------------------------------------------------------------
(* Properties of the write order and of generation batches *)

\* C3: the document saveState writes carries no image payload: every
\* reference image, character and generated image has the empty placeholder
\* as dataUrl, and no generated image carries maskDataUrl.
C3_NoPayloadPersisted ==
    stored.kind = "json" =>
        /\ \A i \in DOMAIN DocEntities(stored.doc) : DocEntities(stored.doc)[i].dataUrl = EMPTY
        /\ \A i \in DOMAIN stored.doc.generatedImages :
               "maskDataUrl" \notin DOMAIN stored.doc.generatedImages[i]

\* the requests of the queue of s with the given id
RequestsWithId(s, id) ==
    LET Same(req) == req.id = id
    IN SelectSeq(s.generationQueue, Same)

\* C8: an entity is in the state only after the blob store has acknowledged
\* the write of its payload; when the write of an attempt's image fails the
\* image is never added and the attempt's request ends in status error.
C8_WriteThenAnnounce ==
    /\ EntityIds(state) \subseteq acked
    /\ \A r \in DOMAIN attempts :
           attempts[r].outcome = "saveError" =>
               /\ attempts[r].result.id \notin EntityIds(state)
               /\ \A i \in DOMAIN RequestsWithId(state, r) :
                      RequestsWithId(state, r)[i].status = "error"

AttemptsOf(bi) == {r \in DOMAIN attempts : attempts[r].batch = bi}

Cancelled(bi) == \E r \in AttemptsOf(bi) : attempts[r].aborted

\* the batch has queued its requests in this step
Launched(bi) ==
    /\ batches'[bi].pc = "running"
    /\ IF bi \in DOMAIN batches THEN batches[bi].pc = "enhancing" ELSE TRUE

BatchRequests(s, bi) ==
    LET Mine(req) == req.id \in Range(batches[bi].requestIds)
    IN SelectSeq(s.generationQueue, Mine)

\* C9: submitting with numberOfVariations = k adds exactly k requests to
\* the queue, and once the k attempts have all resolved with none cancelled
\* no request of the batch is pending or generating.
C9_BatchResolves ==
    /\ [][\A bi \in DOMAIN batches' :
              Launched(bi) =>
                  /\ Len(state'.generationQueue) = Len(state.generationQueue) + batches'[bi].count
                  /\ Len(batches'[bi].requestIds) = batches'[bi].count]_vars
    /\ [](\A bi \in DOMAIN batches :
              (batches[bi].pc = "done" /\ ~Cancelled(bi)) =>
                  \A i \in DOMAIN BatchRequests(state, bi) : ~IsActive(BatchRequests(state, bi)[i]))

AllSucceeded(bi) ==
    /\ batches[bi].pc = "done"
    /\ \A r \in AttemptsOf(bi) : attempts[r].outcome = "saved"

BatchImages(s, bi) ==
    LET Mine(img) == "batchId" \in DOMAIN img /\ img.batchId = batches[bi].id
    IN SelectSeq(s.generatedImages, Mine)

Failed(bi) == {r \in AttemptsOf(bi) : attempts[r].outcome \in {"apiError", "saveError"}}

\* C11: in a batch of k attempts with no cancellation where the attempts of F
\* fail, each request of F and no other is in status error with a non-empty
\* message, every other request is completed with its image in the state,
\* and exactly k - |F| images were added.
C11_FailureIsolation ==
    \A bi \in DOMAIN batches :
        (batches[bi].pc = "done" /\ ~Cancelled(bi)) =>
            /\ \A r \in Failed(bi) :
                   \A i \in DOMAIN RequestsWithId(state, r) :
                       /\ RequestsWithId(state, r)[i].status = "error"
                       /\ RequestsWithId(state, r)[i].error # EMPTY
            /\ \A r \in AttemptsOf(bi) \ Failed(bi) :
                   /\ Len(RequestsWithId(state, r)) = 1
                   /\ RequestsWithId(state, r)[1].status = "completed"
                   /\ attempts[r].result.id \in IdsOf(state.generatedImages)
            /\ Len(BatchImages(state, bi)) = batches[bi].count - Cardinality(Failed(bi))

\* the step of cancelAll: the generating flag is lowered while no attempt settles
CancelStep ==
    /\ panel.isGenerating
    /\ ~panel'.isGenerating
    /\ DOMAIN attempts' = DOMAIN attempts
    /\ \A r \in DOMAIN attempts : attempts'[r].pc = attempts[r].pc

ActiveIds(s) ==
    {s.generationQueue[i].id : i \in {j \in DOMAIN s.generationQueue : IsActive(s.generationQueue[j])}}

\* C12: right after cancelAll no request of the queue is pending or
\* generating, and no request that was pending or generating at that moment
\* is in the queue of any later state: an id that has left the queue never
\* returns, and the request of an aborted attempt is never listed again,
\* however the aborted calls unwind.
C12_CancelAll ==
    /\ [][CancelStep => /\ ActiveIds(state') = {}
                        /\ ActiveIds(state) \cap IdsOfSeq(state'.generationQueue) = {}]_vars
    /\ [][\A id \in IdsOfSeq(state'.generationQueue) :
              id \in IdsOfSeq(state.generationQueue) \/ id >= nextId]_vars
    /\ [](\A r \in DOMAIN attempts : attempts[r].aborted => RequestsWithId(state, r) = <<>>)

\* a cancelled attempt whose write was already under way has unwound, and
\* another one has unwound through the aborted call
C12_Witness ==
    /\ \E r \in DOMAIN attempts : attempts[r].aborted /\ attempts[r].outcome = "saved"
    /\ \E r \in DOMAIN attempts : attempts[r].aborted /\ attempts[r].outcome = "aborted"

----------------------------------------------------------------------------
(* Properties of the gate on hydrated, of the persisted document and of loading *)

\* C13: while hydrated is false the only transition of the state is
\* HYDRATE_IMAGE_BLOBS, dispatched by hydrate(), which sets hydrated: no
\* user-initiated action is dispatched before it.
C13_HydratedFirst ==
    [][(~state.hydrated /\ state' # state) =>
          /\ HydrateDispatched
          /\ state'.hydrated
          /\ \/ state' = Case_HYDRATE_IMAGE_BLOBS(state, [imageMap |-> hyd'.results])
             \/ state' = Case_HYDRATE_IMAGE_BLOBS(state, [imageMap |-> EmptyMap])]_vars

\* hydration read the blob store and a user action followed it
C13_Witness ==
    /\ state.hydrated
    /\ hyd.pc = "done"
    /\ hyd.ids # <<>>
    /\ nextId > FirstFreeId

----------------------------------------------------------------------------
(* Sidebar.tsx: view tabs and key field; GalleryPanel.tsx and
   ProjectSettings.tsx: the delete buttons *)

Views == {"generate", "gallery", "edit"}

\* keys typed in the key field
ApiKeys == {EMPTY, "key"}

SetView ==
    /\ state.hydrated
    /\ \E view \in Views : Dispatch(<<Act("SET_VIEW", view)>>)
    /\ UNCHANGED <<blobs, hyd, pendingDel, epoch, nextId, ioVars>>

SetApiKey ==
    /\ state.hydrated
    /\ \E key \in ApiKeys : Dispatch(<<Act("SET_API_KEY", key)>>)
    /\ UNCHANGED <<blobs, hyd, pendingDel, epoch, nextId, ioVars>>

\* the delete button of a gallery tile: the dispatch, then deleteImageBlob
DeleteImage ==
    /\ state.hydrated
    /\ \E i \in DOMAIN projectImages(state) :
           LET img == projectImages(state)[i]
           IN /\ Dispatch(<<Act("DELETE_GENERATED_IMAGE", img.id)>>)
              /\ pendingDel' = pendingDel \cup {{img.id}}
    /\ UNCHANGED <<blobs, hyd, epoch, nextId, ioVars>>

\* ProjectSettings handleRemove: the dispatch, then deleteImageBlob
handleRemove ==
    /\ state.hydrated
    /\ HasActiveProject(state)
    /\ \E i \in DOMAIN ActiveProject(state).referenceImages :
           LET imageId == ActiveProject(state).referenceImages[i].id
           IN /\ Dispatch(<<Act("REMOVE_REFERENCE_IMAGE",
                                [projectId |-> state.activeProjectId, imageId |-> imageId])>>)
              /\ pendingDel' = pendingDel \cup {{imageId}}
    /\ UNCHANGED <<blobs, hyd, epoch, nextId, ioVars>>

\* a hydrated session over the saved document, with the outcome of each
\* write to localStorage recorded
InitPersist ==
    /\ stored = [kind |-> "json", doc |-> SavedDoc]
    /\ blobs = FullBlobs
    /\ state = Case_HYDRATE_IMAGE_BLOBS(getInitialState(stored), [imageMap |-> FullBlobs])
    /\ hyd = [pc |-> "done", ids |-> HydrateIds(getInitialState(stored)),
              next |-> Cardinality(SavedIds) + 1, remaining |-> 0, results |-> FullBlobs]
    /\ pendingDel = {}
    /\ epoch = 0
    /\ nextId = FirstFreeId
    /\ panel = IdleGeneration
    /\ batches = <<>>
    /\ attempts = <<>>
    /\ uploads = <<>>
    /\ acked = DOMAIN blobs
    /\ lastWrite = "passed"
    /\ dispatched = NoLog

NextPersist ==
    \/ SelectProject
    \/ SetVariations
    \/ SelectImage
    \/ SetView
    \/ SetApiKey
    \/ DeleteImage
    \/ handleRemove

SpecPersist == InitPersist /\ [][NextPersist]_vars

Blank(x) == [x EXCEPT !.dataUrl = EMPTY]

ProjectProjection(p) ==
    [p EXCEPT !.referenceImages = MapSeq(@, Blank), !.characters = MapSeq(@, Blank)]

\* the persisted fields of s, with every dataUrl replaced by ''
Projection(s) ==
    [apiKey |-> s.apiKey,
     modelId |-> s.modelId,
     projects |-> MapSeq(s.projects, ProjectProjection),
     activeProjectId |-> s.activeProjectId,
     generatedImages |-> MapSeq(s.generatedImages, Blank),
     defaultSettings |-> s.defaultSettings]

PersistedChanged(s, t) ==
    \/ s.apiKey # t.apiKey
    \/ s.projects # t.projects
    \/ s.activeProjectId # t.activeProjectId
    \/ s.generatedImages # t.generatedImages
    \/ s.defaultSettings # t.defaultSettings

\* C14: once hydrated, after every transition that changes apiKey, projects,
\* activeProjectId, generatedImages or defaultSettings, unless the write
\* failed, the stored document is the projection of the new state; and
\* generationQueue, selectedImageId and view are never in the document.
C14_DocumentIsProjection ==
    /\ [][(state.hydrated /\ state'.hydrated /\ PersistedChanged(state, state')
              /\ lastWrite' = "passed") =>
             stored' = [kind |-> "json", doc |-> Projection(state')]]_vars
    /\ [](stored.kind = "json" =>
             DOMAIN stored.doc \cap {"generationQueue", "selectedImageId", "view", "hydrated"} = {})

\* the document follows the state after changes of persisted fields, while
\* the view and the selected image have changed too
C14_Witness ==
    /\ lastWrite = "passed"
    /\ stored = [kind |-> "json", doc |-> Projection(state)]
    /\ stored.doc.apiKey # SavedDoc.apiKey
    /\ stored.doc.activeProjectId # SavedDoc.activeProjectId
    /\ stored.doc.generatedImages # SavedDoc.generatedImages
    /\ stored.doc.projects # SavedDoc.projects
    /\ stored.doc.defaultSettings # SavedDoc.defaultSettings
    /\ state.view # "generate"
    /\ state.selectedImageId # NULL

----------------------------------------------------------------------------
(* store.tsx: the state built from whatever localStorage holds *)

\* part_001: a project written before characters existed
OldProject(i) == [id |-> i, referenceImages |-> <<Ref(3)>>]

\* part_001: settings written before stylePreset existed
OldSettings == [numberOfVariations |-> 2]

SavedFields ==
    {"apiKey", "modelId", "projects", "activeProjectId", "generatedImages", "defaultSettings"}

\* object documents: any subset of the fields of SavedState, written by this
\* schema, by the older one, or by something else
FullDocs ==
    [apiKey : {EMPTY, "key"},
     modelId : {DEFAULT_MODEL},
     projects : {<<>>,
                 <<[id |-> 1, referenceImages |-> <<Ref(3)>>, characters |-> <<Ref(4)>>]>>,
                 <<OldProject(1), OldProject(2)>>,
                 <<[id |-> 1]>>},
     activeProjectId : {NULL, 1},
     generatedImages : {<<>>, <<Gen(5, 1)>>},
     defaultSettings : {DEFAULT_SETTINGS, OldSettings, [theme |-> "dark"]}]

StoredItems ==
    {[kind |-> k] : k \in {"absent", "empty", "unparseable", "null", "primitive"}}
        \cup {[kind |-> "json", doc |-> [f \in F |-> full[f]]] :
                 F \in SUBSET SavedFields, full \in FullDocs}

InitLoad ==
    /\ stored \in StoredItems
    /\ blobs = EmptyMap
    /\ state = getInitialState(stored)
    /\ hyd = Mounting
    /\ pendingDel = {}
    /\ epoch = 0
    /\ nextId = FirstFreeId
    /\ panel = IdleGeneration
    /\ batches = <<>>
    /\ attempts = <<>>
    /\ uploads = <<>>
    /\ acked = {}
    /\ lastWrite = "unrecorded"
    /\ dispatched = NoLog

NextLoad == Reload

SpecLoad == InitLoad /\ [][NextLoad]_vars

StateFields ==
    {"apiKey", "modelId", "projects", "activeProjectId", "generatedImages",
     "generationQueue", "defaultSettings", "selectedImageId", "view", "hydrated"}

WellFormed(s) ==
    /\ DOMAIN s = StateFields
    /\ \A i \in DOMAIN s.projects :
           {"id", "referenceImages", "characters"} \subseteq DOMAIN s.projects[i]
    /\ \A i \in DOMAIN s.generatedImages :
           {"id", "projectId", "prompt", "dataUrl"} \subseteq DOMAIN s.generatedImages[i]
    /\ DOMAIN DEFAULT_SETTINGS \subseteq DOMAIN s.defaultSettings

EmptyInitialState ==
    [apiKey |-> EMPTY,
     modelId |-> DEFAULT_MODEL,
     projects |-> <<>>,
     activeProjectId |-> NULL,
     generatedImages |-> <<>>,
     generationQueue |-> <<>>,
     defaultSettings |-> DEFAULT_SETTINGS,
     selectedImageId |-> NULL,
     view |-> "generate",
     hydrated |-> FALSE]

\* C16: for every stored document the state built on load is well-formed
\* (every field of the state, of each project, of each image and of the
\* settings is there), and for absent, unparseable and non-object content
\* it is the empty initial state.
C16_LoadIsWellFormed ==
    (hyd = Mounting /\ ~state.hydrated) =>
        /\ WellFormed(state)
        /\ stored.kind # "json" => state = EmptyInitialState

IsOldSchema(doc) ==
    /\ DOMAIN doc = SavedFields
    /\ doc.projects # <<>>
    /\ \A i \in DOMAIN doc.projects :
           DOMAIN doc.projects[i] = {"id", "referenceImages"}
    /\ DOMAIN doc.defaultSettings = {"numberOfVariations"}

\* C17: the state built from a document of the older schema has
\* characters = [] in every project and a stylePreset in defaultSettings.
C17_Migration ==
    (hyd = Mounting /\ ~state.hydrated /\ stored.kind = "json" /\ IsOldSchema(stored.doc)) =>
        /\ \A i \in DOMAIN state.projects :
               /\ "characters" \in DOMAIN state.projects[i]
               /\ state.projects[i].characters = <<>>
        /\ "stylePreset" \in DOMAIN state.defaultSettings

----------------------------------------------------------------------------
(* Gallery of a hydrated session whose images were edited from one another *)

EditedFrom(i, projectId, parent) == Spread(Gen(i, projectId), [parentImageId |-> parent])

\* 5 was edited from 6, and 6 from 7
GalleryDoc ==
    [SavedDoc EXCEPT !.generatedImages = <<EditedFrom(5, 1, 6), EditedFrom(6, 1, 7), Gen(7, 1)>>]

InitGallery ==
    /\ stored = [kind |-> "json", doc |-> GalleryDoc]
    /\ blobs = FullBlobs
    /\ state = Case_HYDRATE_IMAGE_BLOBS(getInitialState(stored), [imageMap |-> FullBlobs])
    /\ hyd = [pc |-> "done", ids |-> HydrateIds(getInitialState(stored)),
              next |-> Cardinality(SavedIds) + 1, remaining |-> 0, results |-> FullBlobs]
    /\ pendingDel = {}
    /\ epoch = 0
    /\ nextId = FirstFreeId
    /\ panel = IdleGeneration
    /\ batches = <<>>
    /\ attempts = <<>>
    /\ uploads = <<>>
    /\ acked = DOMAIN blobs
    /\ lastWrite = "unrecorded"
    /\ dispatched = NoLog

NextGallery ==
    \/ SelectProject
    \/ SelectImage
    \/ SetView
    \/ DeleteImage

SpecGallery == InitGallery /\ [][NextGallery]_vars

ImagesOf(s) == {s.generatedImages[i] : i \in DOMAIN s.generatedImages}

\* C18: a step that deletes the image x (the id handed to deleteImageBlob)
\* removes the image with id x and no other, and every other image, an
\* image edited from x included, stays as it was, parentImageId and all.
C18_DeleteExactlyOne ==
    [][state'.generatedImages # state.generatedImages =>
          \E x \in IdsOfSeq(state.generatedImages) :
              /\ pendingDel' = pendingDel \cup {{x}}
              /\ x \notin IdsOfSeq(state'.generatedImages)
              /\ Len(state'.generatedImages) = Len(state.generatedImages) - 1
              /\ \A img \in ImagesOf(state) : img.id # x => img \in ImagesOf(state')]_vars

\* 6 is deleted and 5, edited from 6, is still there and still names 6
C18_Witness ==
    /\ 6 \notin IdsOfSeq(state.generatedImages)
    /\ \E img \in ImagesOf(state) :
           img.id = 5 /\ "parentImageId" \in DOMAIN img /\ img.parentImageId = 6

----------------------------------------------------------------------------
(* store.tsx: the reducer replayed over reference image actions *)

ReplayImageIds == {11, 12}

ReplayImage(i) == [id |-> i, dataUrl |-> OriginalPayload(i)]

\* the payloads tried: both projects and a project id the state does not
\* hold; images whose ids can repeat; an empty and a two-image batch
ReferenceActions ==
    {Act("ADD_REFERENCE_IMAGE", [projectId |-> p, image |-> ReplayImage(i)]) :
         p \in {1, 2}, i \in ReplayImageIds}
    \cup {Act("ADD_REFERENCE_IMAGES_BATCH", [projectId |-> p, images |-> imgs]) :
              p \in {1, 2}, imgs \in {<<>>, <<ReplayImage(11), ReplayImage(12)>>}}
    \cup {Act("REMOVE_REFERENCE_IMAGE", [projectId |-> p, imageId |-> i]) :
              p \in {1, 2}, i \in ReplayImageIds}
    \cup {Act("ADD_REFERENCE_IMAGE", [projectId |-> 9, image |-> ReplayImage(11)])}

DispatchReferenceAction ==
    /\ state.hydrated
    /\ Len(dispatched.actions) < MaxReplay
    /\ \E a \in ReferenceActions : Dispatch(<<a>>)
    /\ UNCHANGED <<blobs, hyd, pendingDel, epoch, nextId, ioVars>>

InitRefs ==
    /\ stored = [kind |-> "json", doc |-> WorkDoc(3)]
    /\ blobs = EmptyMap
    /\ state = Case_HYDRATE_IMAGE_BLOBS(getInitialState(stored), [imageMap |-> EmptyMap])
    /\ hyd = [Mounting EXCEPT !.pc = "done"]
    /\ pendingDel = {}
    /\ epoch = 0
    /\ nextId = FirstWorkId
    /\ panel = IdleGeneration
    /\ batches = <<>>
    /\ attempts = <<>>
    /\ uploads = <<>>
    /\ acked = {}
    /\ lastWrite = "unrecorded"
    /\ dispatched = [on |-> TRUE, actions |-> <<>>]

NextRefs == DispatchReferenceAction

SpecRefs == InitRefs /\ [][NextRefs]_vars

\* one append or removal-by-id on a plain list
ApplyToList(list, a) ==
    CASE a.type = "ADD_REFERENCE_IMAGE" -> Append(list, a.payload.image)
      [] a.type = "ADD_REFERENCE_IMAGES_BATCH" -> list \o a.payload.images
      [] a.type = "REMOVE_REFERENCE_IMAGE" ->
             LET Other(img) == img.id # a.payload.imageId IN SelectSeq(list, Other)
      [] OTHER -> list

\* the appends and removals that name project p, applied in order to list
RECURSIVE Replay(_, _, _)
Replay(actions, p, list) ==
    IF actions = <<>> THEN list
    ELSE Replay(Tail(actions), p,
                IF Head(actions).payload.projectId = p
                THEN ApplyToList(list, Head(actions)) ELSE list)

----------------------------------------------------------------------------
(* Blobs left behind by a deleted project *)

\* ids of the reference images, characters and generated images that the
\* saved document gives project P
OwnedIds(P) ==
    LET project == SavedDoc.projects[CHOOSE i \in DOMAIN SavedDoc.projects :
                                         SavedDoc.projects[i].id = P]
    IN IdsOfSeq(project.referenceImages) \cup IdsOfSeq(project.characters)
           \cup {SavedDoc.generatedImages[i].id :
                    i \in {j \in DOMAIN SavedDoc.generatedImages :
                               SavedDoc.generatedImages[j].projectId = P}}

\* the deleteMultipleImageBlobs transaction for ids completes in this step
DeletionCompletes(ids) ==
    /\ ids \in pendingDel
    /\ pendingDel' = pendingDel \ {ids}
    /\ DOMAIN blobs' = DOMAIN blobs \ ids
    /\ DOMAIN blobs' # DOMAIN blobs

\* C21: when the blob deletion triggered by deleting project P completes,
\* the blob store holds no payload under the id of any reference image,
\* character or generated image of P.
C21_NoBlobOfDeletedProject ==
    [][\A ids \in pendingDel, P \in IdsOfSeq(SavedDoc.projects) :
          (DeletionCompletes(ids) /\ P \notin ProjectIds(state) /\ ids \cap OwnedIds(P) # {}) =>
              OwnedIds(P) \cap DOMAIN blobs' = {}]_vars

----------------------------------------------------------------------------
(* Startup over the documents an earlier session or an older version left *)

\* part_001: a document of the schema without characters and stylePreset
OldDoc ==
    [apiKey |-> "key",
     modelId |-> DEFAULT_MODEL,
     projects |-> <<OldProject(1)>>,
     activeProjectId |-> 1,
     generatedImages |-> <<Gen(6, 1)>>,
     defaultSettings |-> OldSettings]

InitStartup ==
    /\ stored \in InitialItems \cup {[kind |-> "json", doc |-> OldDoc]}
    /\ blobs \in InitialBlobs
    /\ stored = NoItem => blobs = EmptyMap
    /\ state = getInitialState(stored)
    /\ hyd = Mounting
    /\ pendingDel = {}
    /\ epoch = 0
    /\ nextId = FirstFreeId
    /\ panel = IdleGeneration
    /\ batches = <<>>
    /\ attempts = <<>>
    /\ uploads = <<>>
    /\ acked = DOMAIN blobs
    /\ lastWrite = "unrecorded"
    /\ dispatched = NoLog

NextStartup ==
    \/ HydrateNothing
    \/ HydrateOpen
    \/ HydrateOpenFail
    \/ ReadSuccess
    \/ ReadError
    \/ Reload

SpecStartup == InitStartup /\ [][NextStartup]_vars

\* C22: no step that leaves hydrated false changes the localStorage item: the
\* document read at startup is as it was until HYDRATE_IMAGE_BLOBS is applied.
C22_NoWriteBeforeHydrated ==
    [][~state'.hydrated => stored' = stored]_vars

\* the older document was read, its blobs were read while it stayed as it
\* was, and the first write came with the hydrated state
C22_Witness ==
    /\ epoch = 0
    /\ state.hydrated
    /\ hyd.ids # <<>>
    /\ stored.kind = "json"
    /\ DOMAIN stored.doc.defaultSettings = DOMAIN OldSettings
    /\ stored.doc # OldDoc

----------------------------------------------------------------------------
(* Sidebar.tsx: renaming a project *)

\* the rename input's onBlur: the trimmed value, when it is not empty
renameProject ==
    /\ state.hydrated
    /\ DateNow(state, attempts) <= MaxRenames
    /\ \E i \in DOMAIN state.projects, typed \in Prompts :
           LET val == Trim(typed)
           IN IF val # <<>>
              THEN Dispatch(<<ActAt("UPDATE_PROJECT", [id |-> state.projects[i].id, name |-> val],
                                    DateNow(state, attempts))>>)
              ELSE NoDispatch
    /\ UNCHANGED <<blobs, hyd, pendingDel, epoch, nextId, ioVars>>

NextRename ==
    \/ renameProject
    \/ handleCreate
    \/ SelectProject

SpecRename == InitProjects /\ [][NextRename]_vars

\* C23: the reducer applied to the same state and the same action gives the
\* same state whenever it is applied: here for the rename of any project,
\* applied at any two times.
C23_SameActionSameState ==
    \A i \in DOMAIN state.projects, t1, t2 \in 1..(MaxRenames + 1) :
        LET payload == [id |-> state.projects[i].id, name |-> <<"a">>]
        IN reducer(state, ActAt("UPDATE_PROJECT", payload, t1)) =
               reducer(state, ActAt("UPDATE_PROJECT", payload, t2))

----------------------------------------------------------------------------
(* db.ts saveImageBlob: the transaction behind a put that has succeeded *)

OpenTx == {r \in DOMAIN attempts : "tx" \in DOMAIN attempts[r] /\ attempts[r].tx = "open"}

\* the readwrite transaction commits: what its put wrote stays in the store
TxComplete ==
    /\ \E r \in OpenTx : attempts' = [attempts EXCEPT ![r].tx = "complete"]
    /\ NoDispatch
    /\ UNCHANGED <<blobs, hyd, pendingDel, epoch, nextId, panel, batches, uploads, acked>>

\* the transaction aborts at commit (quota, disk error): its put is rolled
\* back; the promise resolved at request.onsuccess and no handler is left
TxAbort ==
    /\ \E r \in OpenTx :
           /\ attempts' = [attempts EXCEPT ![r].tx = "aborted"]
           /\ blobs' = [k \in DOMAIN blobs \ {attempts[r].result.id} |-> blobs[k]]
    /\ NoDispatch
    /\ UNCHANGED <<hyd, pendingDel, epoch, nextId, panel, batches, uploads, acked>>

NextDurable ==
    \/ startGeneration
    \/ EnhanceDone
    \/ ApiSuccess
    \/ ApiFail
    \/ SaveSuccess
    \/ SaveFail
    \/ TxComplete
    \/ TxAbort

SpecDurable == InitWork /\ [][NextDurable]_vars

\* C24: whenever the promise of saveImageBlob has resolved for an id, the
\* blob store holds the payload under that id.
C24_ResolvedIsDurable ==
    acked \subseteq DOMAIN blobs

----------------------------------------------------------------------------
(* The status of a generation request *)

Terminal == {"completed", "error"}

\* the request of s with the given id (ids are not repeated in the queue)
RequestOf(s, id) == RequestsWithId(s, id)[1]

\* C25: a request joins the queue as its external call is issued, by then
\* set to generating; afterwards its status stays or moves from generating
\* to completed or to error, once; and it becomes completed only in a state
\* whose generatedImages hold its result image.
C25_StatusMoves ==
    /\ [][\A i \in DOMAIN state'.generationQueue :
              LET new == state'.generationQueue[i]
              IN IF RequestsWithId(state, new.id) = <<>>
                 THEN /\ new.status = "generating"
                      /\ new.id \notin DOMAIN attempts
                      /\ new.id \in DOMAIN attempts'
                      /\ attempts'[new.id].pc = "api"
                 ELSE LET old == RequestOf(state, new.id)
                      IN /\ \/ new.status = old.status
                            \/ old.status = "generating" /\ new.status \in Terminal
                         /\ (old.status # "completed" /\ new.status = "completed") =>
                                /\ "result" \in DOMAIN new
                                /\ new.result.id \in IdsOfSeq(state'.generatedImages)
                                /\ attempts'[new.id].outcome = "saved"]_vars
    /\ [](\A r \in DOMAIN attempts :
              (attempts[r].pc = "api" /\ ~attempts[r].aborted) =>
                  /\ Len(RequestsWithId(state, r)) = 1
                  /\ RequestOf(state, r).status = "generating")

\* of two requests that were generating, one is completed and one ended in
\* error
C25_Witness ==
    /\ {state.generationQueue[i].status : i \in DOMAIN state.generationQueue} =
           {"completed", "error"}
    /\ \A i \in DOMAIN state.generationQueue :
           attempts[state.generationQueue[i].id].pc = "done"

\* C26: each attempt of an edit submission has its own request in the
\* generation queue, generating while its call is out and in a terminal
\* status once it has ended.
C26_EditAttemptsTracked ==
    \A r \in DOMAIN attempts :
        IsEdit(attempts[r]) =>
            /\ Len(RequestsWithId(state, r)) = 1
            /\ RequestOf(state, r).status =
                   IF attempts[r].pc = "editDone"
                   THEN (IF attempts[r].outcome = "saved" THEN "completed" ELSE "error")
                   ELSE "generating"

(* Selecting images while images and projects are deleted *)

NextSelect ==
    \/ SelectImage
    \/ SelectProject
    \/ handleCreate
    \/ DeleteImage
    \/ DeleteProjectClick

SpecSelect == InitProjects /\ [][NextSelect]_vars

\* C27: the selected image id is null or the id of an image of the gallery.
C27_SelectionExists ==
    state.selectedImageId = NULL \/ state.selectedImageId \in IdsOfSeq(state.generatedImages)

(* Deleting a project while generation attempts are in flight *)

NextInFlight ==
    \/ startGeneration
    \/ EnhanceDone
    \/ ApiSuccess
    \/ ApiFail
    \/ SaveSuccess
    \/ SaveFail
    \/ DeleteProjectClick

SpecInFlight == InitWork /\ [][NextInFlight]_vars

\* C28: once a project has been deleted, no image of the gallery carries
\* its id as projectId.
C28_NoImageOfDeletedProject ==
    \A i \in DOMAIN state.generatedImages :
        state.generatedImages[i].projectId \in ProjectIds(state)

(* Uploads into a project that is one image short of its limits *)

\* project 1 holds MAX_REFERENCES - 1 reference images and MAX_CHARACTERS - 1
\* characters, left there by earlier uploads
NearLimitDoc ==
    [WorkDoc(1) EXCEPT
        !.projects = << Spread(createNewProject(1),
                               [referenceImages |-> [i \in 1..(MAX_REFERENCES - 1) |-> Ref(100 + i)],
                                characters |-> [i \in 1..(MAX_CHARACTERS - 1) |-> Ref(200 + i)]]),
                        createNewProject(2) >>]

NearLimitIds == (101..(99 + MAX_REFERENCES)) \cup (201..(199 + MAX_CHARACTERS))

NearLimitBlobs == [i \in NearLimitIds |-> OriginalPayload(i)]

InitLimit ==
    /\ stored = [kind |-> "json", doc |-> NearLimitDoc]
    /\ blobs = NearLimitBlobs
    /\ state = Case_HYDRATE_IMAGE_BLOBS(getInitialState(stored), [imageMap |-> NearLimitBlobs])
    /\ hyd = [pc |-> "done", ids |-> HydrateIds(getInitialState(stored)),
              next |-> Cardinality(NearLimitIds) + 1, remaining |-> 0, results |-> NearLimitBlobs]
    /\ pendingDel = {}
    /\ epoch = 0
    /\ nextId = FirstWorkId
    /\ panel = IdleGeneration
    /\ batches = <<>>
    /\ attempts = <<>>
    /\ uploads = <<>>
    /\ acked = DOMAIN blobs
    /\ lastWrite = "unrecorded"
    /\ dispatched = NoLog

SpecLimit == InitLimit /\ [][NextUpload]_vars

\* C29: no project holds more than MAX_REFERENCES reference images or more
\* than MAX_CHARACTERS characters.
C29_WithinLimits ==
    \A i \in DOMAIN state.projects :
        /\ Len(state.projects[i].referenceImages) <= MAX_REFERENCES
        /\ Len(state.projects[i].characters) <= MAX_CHARACTERS

\* C30: the mask an edit submission sends is the mask the selection tool
\* reported last before the submission, or none if it was cleared.
C30_CurrentMaskSent ==
    [][\A r \in DOMAIN attempts' \ DOMAIN attempts :
           IsEdit(attempts'[r]) => attempts'[r].mask = panel.selectionMask]_vars

====
